---- MODULE Spec2Model ----
(***************************************************************************)
(* av1converter: the encoding worker (queue/worker.rs), the per-job        *)
(* pipeline (encoder/mod.rs, encoder/ab_av1.rs, encoder/ffmpeg.rs) and the *)
(* front end that drains the worker's channel (app.rs).                    *)
(*                                                                         *)
(* The worker thread and the front end run concurrently; they share the    *)
(* cancellation flag (an AtomicBool) and the mpsc channel.  Each action    *)
(* below is one step of one of them, or one step of an external process.   *)
(***************************************************************************)
EXTENDS Integers, Sequences, FiniteSets, TLC

\* ------------------------------------------------------------------ bounds
NumJobs == 2          \* jobs handed to run_worker, under every configuration
MaxChan == 1          \* messages in flight before the front end's next tick
MaxErrors == 2        \* analysis failures counted before a session is reset

\* --------------------------------------------------------- program constants
DELETE_VMAF_THRESHOLD == 90
PresetCrf == 22

VARIABLES
    \* worker thread (queue/worker.rs, encoder/*)
    jobs,            \* the part of `jobs: Vec<WorkerJob>` the for loop has not taken yet
    job,             \* the loop variable `job`
    wpc,             \* the worker's position
    search_result,   \* what find_optimal_crf returned
    vmaf_result,     \* what calculate_vmaf returned, if run_vmaf_check called it
    crf_override,    \* `crf_override` of run_encoding_pipeline
    enc_crf,         \* params.crf built by EncodingParams::from_metadata
    child,           \* the external process the worker spawned
    result,          \* the FullEncodeResult of the active job
    result_stage,    \* the stage that produced `result`
    \* file system
    progress_file,   \* ffmpeg_progress_<pid> exists
    output_file,     \* per job: the output path's content
    source_file,     \* per job: the input file exists
    \* shared between the threads
    cancel_flag,
    chan,            \* the mpsc channel, worker -> front end
    config,          \* the AppConfig snapshot and ab_av1_available
    env,             \* what the external tools may report in this run
    \* front end (app.rs)
    files,
    current_file_index,
    converted_count,
    skipped_count,
    error_count,
    encoding_active,
    current_screen,
    config_file_index,
    analyze_index,   \* the file analyze_files' loop is at, if it is running
    ejob,            \* an EncodingJob of the queue (queue/job.rs)
    ret,             \* what the last read accessor called on the queue or the job returned
    \* history
    log,             \* what the worker sent, in order (payloads dropped, repeated Progress of one job kept once)
    recv,            \* what the front end processed, in the same form
    cancel_at,       \* where the worker was when the flag was set
    prior_cancel     \* an earlier run of this session was cancelled

workerVars == <<jobs, job, wpc, search_result, vmaf_result, crf_override, enc_crf, child,
                result, result_stage>>
fsVars == <<progress_file, output_file, source_file>>
accessVars == <<ejob, ret>>
sessionVars == <<config_file_index, analyze_index, prior_cancel>>
appVars == <<files, current_file_index, converted_count, skipped_count, error_count,
             encoding_active, current_screen, accessVars, sessionVars>>
vars == <<workerVars, fsVars, cancel_flag, chan, config, env, appVars, log, recv, cancel_at>>

\* --------------------------------------------------------------- messages
Progress(i, p) == [type |-> "Progress", idx |-> i, progress |-> p]
Done(i) == [type |-> "Done", idx |-> i]
DoneWithVmaf(i, s) == [type |-> "DoneWithVmaf", idx |-> i, score |-> s]
Error(i, t) == [type |-> "Error", idx |-> i, text |-> t]
QualityWarning(i, s, t) == [type |-> "QualityWarning", idx |-> i, score |-> s, threshold |-> t]
Cancelled == [type |-> "Cancelled"]
SourceDeleted(i) == [type |-> "SourceDeleted", idx |-> i]
SourceKeptLowVmaf(i, s) == [type |-> "SourceKeptLowVmaf", idx |-> i, score |-> s]

Untagged == -1
MsgIdx(m) == IF m.type = "Cancelled" THEN Untagged ELSE m.idx

\* The history form of a message, appended to a history `h`.
Logged(h, m) ==
    LET e == [type |-> m.type, idx |-> MsgIdx(m)]
    IN  IF m.type = "Progress" /\ h # <<>> /\ h[Len(h)] = e THEN h ELSE Append(h, e)

\* tx.send(m)
Send(m) ==
    /\ Len(chan) < MaxChan
    /\ chan' = Append(chan, m)
    /\ log' = Logged(log, m)

NoSend == UNCHANGED <<chan, log>>

\* ------------------------------------------------------- pipeline results
NoResult == [kind |-> "None"]
Success == [kind |-> "Success"]
SuccessWithVmaf(s) == [kind |-> "SuccessWithVmaf", score |-> s]
ResCancelled == [kind |-> "Cancelled"]
ResError(t) == [kind |-> "Error", text |-> t]
ResQualityWarning(s, t) == [kind |-> "QualityWarning", score |-> s, threshold |-> t]

NoJob == [index |-> Untagged, delete_source |-> FALSE]

\* Option<u8> and Result<CrfSearchResult, AppError>
None == [some |-> FALSE]
Some(v) == [some |-> TRUE, v |-> v]
Ok(c) == [ok |-> TRUE, crf |-> c]
Err(e) == [ok |-> FALSE, err |-> e]
NotRun == Err("NotRun")

\* ------------------------------------------------------------------- Init
\* The list handed to the worker: job i carries index i, and every job the
\* caller's choice `del` about deleting sources.
RECURSIVE JobList(_, _, _)
JobList(i, n, del) ==
    IF i = n THEN <<>>
    ELSE <<[index |-> i, delete_source |-> del]>> \o JobList(i + 1, n, del)

\* The runs explored: a queue of NumJobs jobs with every combination of
\* source deletion, VMAF verification and ab-av1 availability; a queue one
\* job longer that is encoded only (no search, no verification, no deletion);
\* a single verified job with either warning threshold and scores on both
\* sides of, and on, the warning and the deletion threshold; and an empty queue.
Configs == [vmaf_enabled : BOOLEAN, vmaf_threshold : {85}, ab_av1_available : BOOLEAN]
PlainConfig == [vmaf_enabled |-> FALSE, vmaf_threshold |-> 85, ab_av1_available |-> FALSE]
VerifyConfigs == [vmaf_enabled : {TRUE}, vmaf_threshold : {85, 95}, ab_av1_available : {FALSE}]
BaseEnv == [scores |-> {72, 96}, out_time |-> {30}, duration |-> 60, crfs |-> {18}]
VerifyEnv == [scores |-> {72, 85, 90, 96}, out_time |-> {30}, duration |-> 60, crfs |-> {18}]

\* The state start_encoding leaves for the list `jobs` it hands to the worker.
RunStart ==
    /\ job = NoJob
    /\ wpc = "loop"
    /\ search_result = NotRun
    /\ vmaf_result = None
    /\ crf_override = None
    /\ enc_crf = None
    /\ child = "none"
    /\ result = NoResult
    /\ result_stage = "none"
    /\ progress_file = FALSE
    /\ output_file = [i \in 0 .. (Len(jobs) - 1) |-> "absent"]
    /\ source_file = [i \in 0 .. (Len(jobs) - 1) |-> TRUE]
    /\ cancel_flag = FALSE
    /\ chan = <<>>
    /\ files = [i \in 0 .. (Len(jobs) - 1) |->
                    [status |-> [s |-> "Pending"], source_deleted |-> FALSE,
                     source_kept_vmaf |-> None]]
    /\ current_file_index = 0
    /\ converted_count = 0
    /\ skipped_count = 0
    /\ error_count = 0
    /\ encoding_active = TRUE
    /\ current_screen = "Queue"
    /\ log = <<>>
    /\ recv = <<>>
    /\ cancel_at = [stage |-> "never", idx |-> Untagged]

RunInit ==
    /\ \/ /\ \E del \in BOOLEAN : jobs = JobList(0, NumJobs, del)
          /\ config \in Configs
          /\ env = BaseEnv
       \/ /\ jobs = JobList(0, NumJobs + 1, FALSE)
          /\ config = PlainConfig
          /\ env = BaseEnv
       \/ /\ \E del \in BOOLEAN : jobs = JobList(0, 1, del)
          /\ config \in VerifyConfigs
          /\ env = VerifyEnv
       \/ /\ jobs = <<>>
          /\ config = PlainConfig
          /\ env = BaseEnv
    /\ RunStart

\* A path is its parent() (none for a root or an empty path) and its
\* file_name() (none for a root), the name as its pieces with every "." a
\* piece of its own.  EncodingJob::new for `path`, `size` its length if the
\* file's metadata can be read.
NoPath == [parent |-> None, name |-> None]
NewJob(path, size) ==
    [path |-> path, status |-> [s |-> "Pending"], output_path |-> None,
     source_size |-> size, output_size |-> None, tracks |-> "default"]
NoReturn == [fn |-> "none"]

\* Nothing is being analysed or configured, and no run came before.
NoSession ==
    /\ config_file_index = 0
    /\ analyze_index = None
    /\ prior_cancel = FALSE

\* The runs of the worker, with no accessor called.
Init ==
    /\ RunInit
    /\ NoSession
    /\ ejob = NewJob(NoPath, None)
    /\ ret = NoReturn

\* ----------------------------------------------------- external processes
\* The process the worker spawned (ab-av1 or ffmpeg) exits on its own.
\* ffmpeg leaves a complete output file when it exits with status 0.
ChildExits ==
    /\ child = "running"
    /\ \E ok \in BOOLEAN :
        /\ child' = (IF ok THEN "exited_ok" ELSE "exited_fail")
        /\ output_file' = IF wpc \in {"enc_loop", "enc_poll"} /\ ok
                          THEN [output_file EXCEPT ![job.index] = "complete"]
                          ELSE output_file
    /\ UNCHANGED <<jobs, job, wpc, search_result, crf_override, enc_crf, result,
                   result_stage, progress_file, source_file, cancel_flag, chan, config, env,
                   appVars, log, recv, cancel_at>>
    /\ UNCHANGED vmaf_result

\* ------------------------------------------------------------- run_worker
\* Faulty variant: the list is consumed from its back (`jobs.pop()`).
TakeJobFromBack(js) == [job |-> js[Len(js)], rest |-> SubSeq(js, 1, Len(js) - 1)]

\* `for job in jobs`: the iterator yields the front of the list.
TakeJob(js) == [job |-> Head(js), rest |-> Tail(js)]

\* Faulty variant: the cancellation is reported but the loop is not left.
LoopHeadNoBreak(flag, j, ab_av1_available) ==
    [msg |-> IF flag THEN Cancelled ELSE Progress(j.index, 0),
     next |-> IF ab_av1_available THEN "search_available" ELSE "encode_start"]

\* Faulty variant: the flag is not looked at before a job.
LoopHeadNoCheck(flag, j, ab_av1_available) ==
    [msg |-> Progress(j.index, 0),
     next |-> IF ab_av1_available THEN "search_available" ELSE "encode_start"]

\* The head of the loop body for job `j`: the flag is checked; the worker
\* either reports the cancellation and breaks, or announces the job and enters
\* run_encoding_pipeline (`if ab_av1_available {..} else { None }`).
LoopHead(flag, j, ab_av1_available) ==
    IF flag
    THEN [msg |-> Cancelled, next |-> "returned"]
    ELSE [msg |-> Progress(j.index, 0),
          next |-> IF ab_av1_available THEN "search_available" ELSE "encode_start"]

WorkerLoop ==
    /\ wpc = "loop"
    /\ IF jobs = <<>>
       THEN /\ wpc' = "returned"
            /\ UNCHANGED <<jobs, job>>
            /\ NoSend
       ELSE LET t == TakeJob(jobs)
                h == LoopHead(cancel_flag, t.job, config.ab_av1_available)
            IN  /\ jobs' = t.rest
                /\ job' = t.job
                /\ Send(h.msg)
                /\ wpc' = h.next
    \* the previous iteration's locals are gone
    /\ search_result' = NotRun
    /\ vmaf_result' = None
    /\ crf_override' = None
    /\ enc_crf' = None
    /\ result' = NoResult
    /\ result_stage' = "none"
    /\ UNCHANGED <<child, fsVars, cancel_flag, config, env, appVars, recv, cancel_at>>

\* --------------------------------------- run_encoding_pipeline, step 1
\* find_optimal_crf up to the spawn: is_available() and Command::spawn.
SearchSpawn ==
    /\ wpc = "search_available"
    /\ \E available \in BOOLEAN, spawned \in BOOLEAN :
        IF available /\ spawned
        THEN /\ child' = "running"
             /\ wpc' = "search_loop"
             /\ UNCHANGED search_result
        ELSE /\ search_result' = (IF available THEN Err("Spawn") ELSE Err("Unavailable"))
             /\ wpc' = "search_returned"
             /\ UNCHANGED child
    /\ UNCHANGED <<jobs, job, crf_override, enc_crf, result, result_stage, fsVars,
                   cancel_flag, chan, config, env, appVars, log, recv, cancel_at>>
    /\ UNCHANGED vmaf_result

\* The head of find_optimal_crf's loop: the cancellation check.
SearchCancelCheck ==
    /\ wpc = "search_loop"
    /\ IF cancel_flag
       THEN /\ child' = "none"                   \* kill, wait
            /\ search_result' = Err("Cancelled")
            /\ wpc' = "search_returned"
       ELSE /\ wpc' = "search_poll"
            /\ UNCHANGED <<child, search_result>>
    /\ UNCHANGED <<jobs, job, crf_override, enc_crf, result, result_stage, fsVars,
                   cancel_flag, chan, config, env, appVars, log, recv, cancel_at>>
    /\ UNCHANGED vmaf_result

\* parse_ab_av1_output: `out` is the sequence of numbers that follow "crf" in
\* the process's output; the first is the CRF, none is an error.
ParseAbAv1Output(out) == IF out = <<>> THEN Err("Parse") ELSE Ok(out[1])

\* Faulty variant: the search loop never sees its process end.
SearchPollNeverDone ==
    /\ wpc = "search_poll"
    /\ wpc' = "search_loop"
    /\ UNCHANGED <<jobs, job, search_result, vmaf_result, crf_override, enc_crf, child,
                   result, result_stage, fsVars, cancel_flag, chan, config, env, appVars,
                   log, recv, cancel_at>>

\* child.try_wait() in find_optimal_crf.
SearchPoll ==
    /\ wpc = "search_poll"
    /\ \/ /\ child = "running"
          /\ wpc' = "search_loop"                \* Ok(None): sleep, loop
          /\ UNCHANGED <<child, search_result>>
       \/ /\ child = "exited_ok"
          /\ \E out \in {<<>>} \cup {<<c>> : c \in env.crfs} :
                search_result' = ParseAbAv1Output(out)
          /\ child' = "none"
          /\ wpc' = "search_returned"
       \/ /\ child = "exited_fail"
          /\ search_result' = Err("Exit")
          /\ child' = "none"
          /\ wpc' = "search_returned"
       \/ /\ search_result' = Err("Wait")         \* Err(e) from try_wait
          /\ child' = "none"
          /\ wpc' = "search_returned"
    /\ UNCHANGED <<jobs, job, crf_override, enc_crf, result, result_stage, fsVars,
                   cancel_flag, chan, config, env, appVars, log, recv, cancel_at>>
    /\ UNCHANGED vmaf_result

\* Faulty variant: a failed search ends the job whatever the flag says.
CrfSearchOutcomeFatal(res, flag) ==
    IF res.ok
    THEN [next |-> "encode", crf |-> Some(res.crf)]
    ELSE [next |-> "cancelled", crf |-> None]

\* Faulty variant: the flag is not read after a failed search.
CrfSearchOutcomeIgnoresFlag(res, flag) ==
    IF res.ok
    THEN [next |-> "encode", crf |-> Some(res.crf)]
    ELSE [next |-> "encode", crf |-> None]

\* The match on find_optimal_crf's result (encoder/mod.rs): the pipeline's
\* next position and crf_override, by the result and the flag read there.
CrfSearchOutcome(res, flag) ==
    IF res.ok
    THEN [next |-> "encode", crf |-> Some(res.crf)]
    ELSE IF flag
         THEN [next |-> "cancelled", crf |-> None]
         ELSE [next |-> "encode", crf |-> None]

SearchReturned ==
    /\ wpc = "search_returned"
    /\ LET o == CrfSearchOutcome(search_result, cancel_flag)
       IN  /\ crf_override' = o.crf
           /\ IF o.next = "cancelled"
              THEN /\ result' = ResCancelled
                   /\ result_stage' = "search"
                   /\ wpc' = "emit"
              ELSE /\ wpc' = "encode_start"
                   /\ UNCHANGED <<result, result_stage>>
    /\ UNCHANGED <<jobs, job, search_result, enc_crf, child, fsVars, cancel_flag,
                   chan, config, env, appVars, log, recv, cancel_at>>
    /\ UNCHANGED vmaf_result

\* --------------------------------------- run_encoding_pipeline, steps 2-3
\* EncodingParams::from_metadata: `crf_override.unwrap_or(preset ...)`.
FromMetadataCrf(override) == IF override.some THEN override.v ELSE PresetCrf

\* Faulty variant: the progress file is left behind.
RemoveProgressFileSkipped(f) == f

\* encode_video: std::fs::remove_file(&progress_file)
RemoveProgressFile(f) == FALSE

\* from_metadata, then encode_video up to the spawn of ffmpeg: the progress
\* file is created, ffmpeg is started (it opens the output file at once).
EncodeStart ==
    /\ wpc = "encode_start"
    /\ \E created \in BOOLEAN, spawned \in BOOLEAN :
        IF created /\ spawned
        THEN /\ enc_crf' = Some(FromMetadataCrf(crf_override))
             /\ progress_file' = TRUE
             /\ child' = "running"
             /\ output_file' = [output_file EXCEPT ![job.index] = "partial"]
             /\ wpc' = "enc_loop"
             /\ UNCHANGED <<result, result_stage>>
        ELSE /\ enc_crf' = None                 \* params are dropped on return
             /\ progress_file' = (IF created THEN RemoveProgressFile(TRUE) ELSE FALSE)
             /\ result' = ResError(IF created THEN "Failed to start ffmpeg"
                                   ELSE "Failed to create progress file")
             /\ result_stage' = "encode"
             /\ wpc' = "emit"
             /\ UNCHANGED <<child, output_file>>
    /\ search_result' = NotRun                  \* the matched value is dropped
    /\ UNCHANGED <<jobs, job, crf_override, source_file, cancel_flag, chan,
                   config, env, appVars, log, recv, cancel_at>>
    /\ UNCHANGED vmaf_result

\* Faulty variant: the output file is left behind.
RemoveOutputSkipped(out, i) == out

\* What run_encode_loop does to the output file when it sees the flag set or a
\* failed exit: std::fs::remove_file(output).
RemoveOutput(out, i) == [out EXCEPT ![i] = "absent"]

\* Faulty variant: the exit of the process is looked at first, and a
\* process that has exited is not cancelled.
EncodeCancelCheckAfterExit ==
    /\ wpc = "enc_loop"
    /\ IF cancel_flag /\ child = "running"
       THEN /\ child' = "none"
            /\ output_file' = RemoveOutput(output_file, job.index)
            /\ progress_file' = RemoveProgressFile(progress_file)
            /\ result' = ResCancelled
            /\ result_stage' = "encode"
            /\ wpc' = "emit"
            /\ enc_crf' = None
       ELSE /\ wpc' = "enc_poll"
            /\ UNCHANGED <<child, output_file, progress_file, result, result_stage,
                           enc_crf>>
    /\ UNCHANGED <<jobs, job, search_result, crf_override, source_file,
                   cancel_flag, chan, config, env, appVars, log, recv, cancel_at>>
    /\ UNCHANGED vmaf_result

\* The head of run_encode_loop: the cancellation check; on cancellation the
\* process is killed and waited for, the output removed, and encode_video
\* removes the progress file before it returns.
EncodeCancelCheck ==
    /\ wpc = "enc_loop"
    /\ IF cancel_flag
       THEN /\ child' = "none"
            /\ output_file' = RemoveOutput(output_file, job.index)
            /\ progress_file' = RemoveProgressFile(progress_file)
            /\ result' = ResCancelled
            /\ result_stage' = "encode"
            /\ wpc' = "emit"
            /\ enc_crf' = None
       ELSE /\ wpc' = "enc_poll"
            /\ UNCHANGED <<child, output_file, progress_file, result, result_stage,
                           enc_crf>>
    /\ UNCHANGED <<jobs, job, search_result, crf_override, source_file,
                   cancel_flag, chan, config, env, appVars, log, recv, cancel_at>>
    /\ UNCHANGED vmaf_result

\* Faulty variant: the percentage is not capped.
EncodeProgressUncapped(time_secs, duration) ==
    IF time_secs > 0 /\ duration > 0 THEN Some((time_secs * 100) \div duration) ELSE None

\* The progress run_encode_loop computes from the last positive out_time of
\* the progress file (here in seconds) and the duration of the source:
\* `(time_secs / duration * 100.0).min(100.0)`, nothing without a positive
\* time or duration.
EncodeProgress(time_secs, duration) ==
    IF time_secs > 0 /\ duration > 0
    THEN LET pct == (time_secs * 100) \div duration
         IN  Some(IF pct > 100 THEN 100 ELSE pct)
    ELSE None

\* The rest of one iteration of run_encode_loop: the progress file is read
\* (the callback sends Progress when it holds a time), then child.try_wait();
\* when the loop returns, encode_video removes the progress file.
EncodePoll ==
    /\ wpc = "enc_poll"
    /\ \E read \in BOOLEAN, t \in env.out_time :
        LET p == EncodeProgress(t, env.duration)
        IN  IF read /\ p.some THEN Send(Progress(job.index, p.v)) ELSE NoSend
    /\ \/ /\ child = "running"
          /\ wpc' = "enc_loop"                   \* Ok(None): sleep, loop
          /\ UNCHANGED <<child, output_file, progress_file, result, result_stage, enc_crf>>
       \/ /\ child = "exited_ok"                 \* Ok(Some(status)), success
          /\ child' = "none"
          /\ progress_file' = RemoveProgressFile(progress_file)
          /\ wpc' = "verify"
          /\ enc_crf' = None
          /\ UNCHANGED <<output_file, result, result_stage>>
       \/ /\ child = "exited_fail"               \* Ok(Some(status)), failure
          /\ child' = "none"
          /\ output_file' = RemoveOutput(output_file, job.index)
          /\ progress_file' = RemoveProgressFile(progress_file)
          /\ result' = ResError("ffmpeg failed")
          /\ result_stage' = "encode"
          /\ wpc' = "emit"
          /\ enc_crf' = None
       \/ /\ child' = "none"                      \* Err(e) from try_wait
          /\ progress_file' = RemoveProgressFile(progress_file)
          /\ result' = ResError("Failed to check ffmpeg status")
          /\ result_stage' = "encode"
          /\ wpc' = "emit"
          /\ enc_crf' = None
          /\ UNCHANGED output_file
    /\ UNCHANGED <<jobs, job, search_result, crf_override, source_file, cancel_flag,
                   config, env, appVars, recv, cancel_at>>
    /\ UNCHANGED vmaf_result

\* --------------------------------------- run_encoding_pipeline, step 4
\* Faulty variant: a score equal to the threshold does not meet it.
MeetsThresholdStrict(score, threshold) == score > threshold

\* VmafResult::meets_threshold
MeetsThreshold(score, threshold) == score >= threshold

\* Faulty variant: a failed score computation fails the job.
RunVmafCheckFailsJob(enabled, threshold, vmaf) ==
    IF ~enabled THEN Success
    ELSE IF ~vmaf.ok THEN ResError("VMAF calculation failed")
    ELSE IF ~MeetsThreshold(vmaf.score, threshold)
         THEN ResQualityWarning(vmaf.score, threshold)
         ELSE SuccessWithVmaf(vmaf.score)

\* run_vmaf_check: `vmaf` is calculate_vmaf's result.
RunVmafCheck(enabled, threshold, vmaf) ==
    IF ~enabled THEN Success
    ELSE IF ~vmaf.ok THEN Success
    ELSE IF ~MeetsThreshold(vmaf.score, threshold)
         THEN ResQualityWarning(vmaf.score, threshold)
         ELSE SuccessWithVmaf(vmaf.score)

Verify ==
    /\ wpc = "verify"
    /\ \E vmaf \in {[ok |-> FALSE]} \cup {[ok |-> TRUE, score |-> s] : s \in env.scores} :
        /\ result' = RunVmafCheck(config.vmaf_enabled, config.vmaf_threshold, vmaf)
        /\ vmaf_result' = IF config.vmaf_enabled THEN Some(vmaf) ELSE None
    /\ result_stage' = "verify"
    /\ wpc' = "emit"
    /\ UNCHANGED <<jobs, job, search_result, crf_override, enc_crf, child, fsVars,
                   cancel_flag, chan, config, env, appVars, log, recv, cancel_at>>

\* ------------------------------------------- run_worker: `match result`
\* Faulty variant: a failed job is reported as still running.
TerminalMessageErrorAsProgress(r, i) ==
    CASE r.kind = "Success" -> Done(i)
      [] r.kind = "SuccessWithVmaf" -> DoneWithVmaf(i, r.score)
      [] r.kind = "Cancelled" -> Cancelled
      [] r.kind = "Error" -> Progress(i, 0)
      [] r.kind = "QualityWarning" -> QualityWarning(i, r.score, r.threshold)

\* The message the worker sends for a pipeline result.
TerminalMessage(r, i) ==
    CASE r.kind = "Success" -> Done(i)
      [] r.kind = "SuccessWithVmaf" -> DoneWithVmaf(i, r.score)
      [] r.kind = "Cancelled" -> Cancelled
      [] r.kind = "Error" -> Error(i, r.text)
      [] r.kind = "QualityWarning" -> QualityWarning(i, r.score, r.threshold)

\* Faulty variant: a failed job ends the run.
AfterTerminalStopOnError(r, j) ==
    CASE r.kind \in {"Cancelled", "Error"} -> "returned"
      [] r.kind \in {"SuccessWithVmaf", "QualityWarning"} /\ j.delete_source -> "delete"
      [] OTHER -> "loop"

\* Faulty variant: the worker returns after its first job.
AfterTerminalStopsAfterFirst(r, j) ==
    CASE r.kind \in {"SuccessWithVmaf", "QualityWarning"} /\ j.delete_source -> "delete"
      [] OTHER -> "returned"

\* Faulty variant: a cancelled pipeline does not end the loop.
AfterTerminalNoBreak(r, j) ==
    CASE r.kind \in {"SuccessWithVmaf", "QualityWarning"} /\ j.delete_source -> "delete"
      [] OTHER -> "loop"

\* Faulty variant: the deletion decision is left out.
AfterTerminalSkipsDelete(r, j) ==
    CASE r.kind = "Cancelled" -> "returned"
      [] OTHER -> "loop"

\* Where the worker goes after sending it.
AfterTerminal(r, j) ==
    CASE r.kind = "Cancelled" -> "returned"
      [] r.kind \in {"SuccessWithVmaf", "QualityWarning"} /\ j.delete_source -> "delete"
      [] OTHER -> "loop"

\* Faulty variant: the worker writes the job's status itself.
EmitTerminalMarksJob ==
    /\ wpc = "emit"
    /\ Send(TerminalMessage(result, job.index))
    /\ wpc' = AfterTerminal(result, job)
    /\ files' = [files EXCEPT ![job.index].status = [s |-> "Done"]]
    /\ UNCHANGED <<jobs, job, search_result, crf_override, enc_crf, child, result,
                   result_stage, fsVars, cancel_flag, config, env, current_file_index,
                   converted_count, skipped_count, error_count, encoding_active,
                   current_screen, accessVars, sessionVars, recv, cancel_at>>
    /\ UNCHANGED vmaf_result

EmitTerminal ==
    /\ wpc = "emit"
    /\ Send(TerminalMessage(result, job.index))
    /\ wpc' = AfterTerminal(result, job)
    /\ UNCHANGED <<jobs, job, search_result, crf_override, enc_crf, child, result,
                   result_stage, fsVars, cancel_flag, config, env, appVars, recv, cancel_at>>
    /\ UNCHANGED vmaf_result

\* Faulty variant: the score is not compared with the threshold.
ShouldDeleteAnyScore(score) == TRUE

\* Faulty variant: a score equal to the deletion threshold keeps the source.
ShouldDeleteStrict(score) == score > DELETE_VMAF_THRESHOLD

\* try_delete_source: `if vmaf_score >= DELETE_VMAF_THRESHOLD`.
ShouldDelete(score) == score >= DELETE_VMAF_THRESHOLD

\* Faulty variant: the kept notification carries the threshold, not the score.
DeleteDecisionReportsThreshold(score, removed, i) ==
    IF ShouldDelete(score)
    THEN IF removed THEN SourceDeleted(i) ELSE Error(i, "Failed to delete source")
    ELSE SourceKeptLowVmaf(i, DELETE_VMAF_THRESHOLD)

\* Faulty variant: the notification carries the first job's index.
DeleteDecisionStaleIndex(score, removed, i) ==
    IF ShouldDelete(score)
    THEN IF removed THEN SourceDeleted(0) ELSE Error(0, "Failed to delete source")
    ELSE SourceKeptLowVmaf(0, score)

\* try_delete_source: `removed` is the result of std::fs::remove_file(source).
DeleteDecision(score, removed, i) ==
    IF ShouldDelete(score)
    THEN IF removed THEN SourceDeleted(i) ELSE Error(i, "Failed to delete source")
    ELSE SourceKeptLowVmaf(i, score)

TryDeleteSource ==
    /\ wpc = "delete"
    /\ \E removed \in BOOLEAN :
        /\ Send(DeleteDecision(result.score, removed, job.index))
        /\ source_file' = IF ShouldDelete(result.score) /\ removed
                          THEN [source_file EXCEPT ![job.index] = FALSE]
                          ELSE source_file
    /\ wpc' = "loop"
    /\ UNCHANGED <<jobs, job, search_result, crf_override, enc_crf, child, result,
                   result_stage, progress_file, output_file, cancel_flag, config, env, appVars,
                   recv, cancel_at>>
    /\ UNCHANGED vmaf_result

\* ------------------------------------------------------ front end (app.rs)
Pending == [s |-> "Pending"]
Converting(p) == [s |-> "Converting", progress |-> p]
StDone == [s |-> "Done"]
StDoneWithVmaf(sc) == [s |-> "DoneWithVmaf", score |-> sc]
Skipped(r) == [s |-> "Skipped", reason |-> r]
StError(t) == [s |-> "Error", message |-> t]
StQualityWarning(v, t) == [s |-> "QualityWarning", vmaf |-> v, threshold |-> t]

TerminalStatuses == {"Done", "DoneWithVmaf", "Skipped", "Error", "QualityWarning"}

\* App::all_files_completed
AllFilesCompleted(fs) == \A i \in DOMAIN fs : fs[i].status.s \in TerminalStatuses

\* The front end's fields as one record, for the loop over the drained messages.
AppState == [files |-> files, current_file_index |-> current_file_index,
             converted_count |-> converted_count, skipped_count |-> skipped_count,
             error_count |-> error_count, encoding_active |-> encoding_active,
             should_finish |-> FALSE]

SetStatus(fs, i, st) == [fs EXCEPT ![i].status = st]

\* Faulty variant: the arm never finishes the run.
FinishIfAllCompletedNever(a) == a

\* The arm shared by Done, DoneWithVmaf, Error and QualityWarning: after the
\* status and the counter are set, `if self.all_files_completed() { .. }`.
FinishIfAllCompleted(a) ==
    IF AllFilesCompleted(a.files)
    THEN [a EXCEPT !.encoding_active = FALSE, !.should_finish = TRUE]
    ELSE a

\* Faulty variant: the Cancelled arm leaves the statuses alone.
MarkCancelledNone(fs) == fs

\* The Cancelled arm: every file that is converting becomes Skipped.
MarkCancelled(fs) ==
    [i \in DOMAIN fs |->
        IF fs[i].status.s = "Converting"
        THEN [fs[i] EXCEPT !.status = Skipped("Cancelled")]
        ELSE fs[i]]

\* The out-of-band notifications set the job's post-decision fields.
ApplySourceDeleted(a, i) ==
    IF i \in DOMAIN a.files THEN [a EXCEPT !.files[i].source_deleted = TRUE] ELSE a

ApplySourceKept(a, i, sc) ==
    IF i \in DOMAIN a.files THEN [a EXCEPT !.files[i].source_kept_vmaf = Some(sc)] ELSE a

\* One iteration of `for msg in messages` in process_progress_messages.
ApplyMessage(a, m) ==
    CASE m.type = "Progress" ->
            IF m.idx \in DOMAIN a.files
            THEN [a EXCEPT !.files = SetStatus(a.files, m.idx, Converting(m.progress)),
                           !.current_file_index = m.idx]
            ELSE a
      [] m.type = "Done" ->
            FinishIfAllCompleted(
                IF m.idx \in DOMAIN a.files
                THEN [a EXCEPT !.files = SetStatus(a.files, m.idx, StDone),
                               !.converted_count = @ + 1]
                ELSE a)
      [] m.type = "DoneWithVmaf" ->
            FinishIfAllCompleted(
                IF m.idx \in DOMAIN a.files
                THEN [a EXCEPT !.files = SetStatus(a.files, m.idx, StDoneWithVmaf(m.score)),
                               !.converted_count = @ + 1]
                ELSE a)
      [] m.type = "Error" ->
            FinishIfAllCompleted(
                IF m.idx \in DOMAIN a.files
                THEN [a EXCEPT !.files = SetStatus(a.files, m.idx, StError(m.text)),
                               !.error_count = @ + 1]
                ELSE a)
      [] m.type = "QualityWarning" ->
            FinishIfAllCompleted(
                IF m.idx \in DOMAIN a.files
                THEN [a EXCEPT !.files = SetStatus(a.files, m.idx,
                                                   StQualityWarning(m.score, m.threshold)),
                               !.converted_count = @ + 1]
                ELSE a)
      [] m.type = "Cancelled" ->
            [a EXCEPT !.files = MarkCancelled(a.files),
                      !.encoding_active = FALSE,
                      !.should_finish = TRUE]
      [] m.type = "SourceDeleted" -> ApplySourceDeleted(a, m.idx)
      [] m.type = "SourceKeptLowVmaf" -> ApplySourceKept(a, m.idx, m.score)

RECURSIVE ApplyAll(_, _)
ApplyAll(a, msgs) ==
    IF msgs = <<>> THEN a ELSE ApplyAll(ApplyMessage(a, Head(msgs)), Tail(msgs))

RECURSIVE LoggedAll(_, _)
LoggedAll(h, msgs) ==
    IF msgs = <<>> THEN h ELSE LoggedAll(Logged(h, Head(msgs)), Tail(msgs))

\* One tick of run_app's loop: every message in the channel is taken with
\* try_recv and applied in order; then the finish screen is entered if asked.
ProcessProgressMessages ==
    /\ chan # <<>>
    /\ LET a == ApplyAll(AppState, chan)
       IN  /\ files' = a.files
           /\ current_file_index' = a.current_file_index
           /\ converted_count' = a.converted_count
           /\ skipped_count' = a.skipped_count
           /\ error_count' = a.error_count
           /\ encoding_active' = a.encoding_active
           /\ current_screen' = IF a.should_finish THEN "Finish" ELSE current_screen
    /\ recv' = LoggedAll(recv, chan)
    /\ chan' = <<>>
    /\ UNCHANGED <<accessVars, sessionVars>>
    /\ UNCHANGED <<workerVars, fsVars, cancel_flag, config, env, log, cancel_at>>

\* ------------------------------------------- queue read accessors
\* total_files_to_encode: set by start_encoding to the number of files handed
\* to the worker, and not changed during the run.
TotalToEncode == Cardinality(DOMAIN files)

\* `.iter().filter(|j| matches!(j.status, ..)).count()` over jobs i, i+1, ...
RECURSIVE CountStatus(_, _, _)
CountStatus(fs, i, kinds) ==
    IF i \notin DOMAIN fs THEN 0
    ELSE (IF fs[i].status.s \in kinds THEN 1 ELSE 0) + CountStatus(fs, i + 1, kinds)

\* `.get(current_job_index).and_then(..).unwrap_or(0.0)`
CurrentProgress(fs, cur) ==
    IF cur \in DOMAIN fs /\ fs[cur].status.s = "Converting" THEN fs[cur].status.progress ELSE 0

\* The progress a fraction num/den stands for is clamped to 100.
ClampTo100(num, den) == IF num > 100 * den THEN [num |-> 100 * den, den |-> den]
                        ELSE [num |-> num, den |-> den]

\* Faulty variant: failed and skipped jobs count as completed.
OverallProgressCountsAll(fs, cur, total) ==
    IF total = 0 THEN [num |-> 0, den |-> 1]
    ELSE ClampTo100(CountStatus(fs, 0, TerminalStatuses) * 100 + CurrentProgress(fs, cur), total)

\* Faulty variant: a job with a quality warning does not count as completed.
OverallProgressNoWarning(fs, cur, total) ==
    IF total = 0 THEN [num |-> 0, den |-> 1]
    ELSE ClampTo100(CountStatus(fs, 0, {"Done", "DoneWithVmaf"}) * 100
                        + CurrentProgress(fs, cur), total)

\* QueueState::overall_progress, as the exact fraction num/den.
OverallProgress(fs, cur, total) ==
    IF total = 0 THEN [num |-> 0, den |-> 1]
    ELSE ClampTo100(CountStatus(fs, 0, {"Done", "DoneWithVmaf", "QualityWarning"}) * 100
                        + CurrentProgress(fs, cur), total)

\* QueueState::elapsed_time as the estimate reads it: None without a start
\* time, else whole seconds since the start.
ElapsedTimes == {None, Some(0), Some(45)}

\* Faulty variant: the remainder is returned whatever its sign.
EstimatedTimeRemainingUnguarded(p, elapsed) ==
    IF p.num <= 0 \/ p.num >= 100 * p.den THEN None
    ELSE IF ~elapsed.some THEN None
    ELSE Some([num |-> elapsed.v * (100 * p.den - p.num), den |-> p.num])

\* QueueState::estimated_time_remaining for progress `p` (a fraction) and
\* elapsed_time() `elapsed` (None without a start time, else seconds):
\* elapsed / (p / 100) - elapsed = elapsed * (100 * den - num) / num.
EstimatedTimeRemaining(p, elapsed) ==
    IF p.num <= 0 \/ p.num >= 100 * p.den THEN None
    ELSE IF ~elapsed.some THEN None
    ELSE LET remaining == [num |-> elapsed.v * (100 * p.den - p.num), den |-> p.num]
         IN  IF remaining.num > 0 THEN Some(remaining) ELSE None

\* The part of the worker's iteration a position belongs to: "start" is the
\* encode stage before ffmpeg runs, "encode" the head of an iteration of
\* run_encode_loop (its cancellation check is next), "poll" the rest of it.
Stage(pc) ==
    CASE pc = "loop" -> "idle"
      [] pc = "returned" -> "returned"
      [] pc \in {"search_available", "search_loop", "search_poll", "search_returned"} -> "search"
      [] pc = "encode_start" -> "start"
      [] pc = "enc_loop" -> "encode"
      [] pc = "enc_poll" -> "poll"
      [] pc = "verify" -> "verify"
      [] pc \in {"emit", "delete"} -> "report"

\* App::cancel_encoding, called when the user confirms the cancel dialog.
CancelEncoding ==
    /\ cancel_flag' = TRUE
    /\ cancel_at' = IF cancel_flag THEN cancel_at
                    ELSE [stage |-> Stage(wpc), idx |-> job.index]
    /\ UNCHANGED <<workerVars, fsVars, chan, config, env, appVars, log, recv>>

\* ------------------------------------------------------------------- Next
Next ==
    \/ WorkerLoop
    \/ SearchSpawn
    \/ SearchCancelCheck
    \/ SearchPoll
    \/ SearchReturned
    \/ EncodeStart
    \/ EncodeCancelCheck
    \/ EncodePoll
    \/ Verify
    \/ EmitTerminal
    \/ TryDeleteSource
    \/ ChildExits
    \/ ProcessProgressMessages
    \/ CancelEncoding

Spec == Init /\ [][Next]_vars

\* --------------------------------------------------------------- histories
Entry(t, i) == [type |-> t, idx |-> i]
CancelledEntry == Entry("Cancelled", Untagged)
Entries(h) == {h[k] : k \in DOMAIN h}
TaggedTerminals == {"Done", "DoneWithVmaf", "Error", "QualityWarning"}
Completions == {"Done", "DoneWithVmaf", "QualityWarning"}

\* The jobs the worker started: those with a Progress message in `h`.
Started(h) == {e.idx : e \in {x \in Entries(h) : x.type = "Progress"}}

\* The positions in `h` of the terminal messages of job i: the tagged ones,
\* and a Cancelled that ends the job's pipeline (it follows the job's Progress
\* messages directly; one sent before a job starts follows the previous job's
\* messages, or nothing).
TerminalsOf(h, i) ==
    {k \in DOMAIN h :
        \/ h[k].type \in TaggedTerminals /\ h[k].idx = i
        \/ h[k].type = "Cancelled" /\ k > 1 /\ h[k - 1] = Entry("Progress", i)}

\* Tagged messages appear in the order of their indices.
InOrder(h) ==
    \A k, l \in DOMAIN h :
        (k < l /\ h[k].type # "Cancelled" /\ h[l].type # "Cancelled") => h[k].idx <= h[l].idx

Last(h) == h[Len(h)]
WorkerBetweenJobs == wpc \in {"loop", "returned"}
Drained == wpc = "returned" /\ chan = <<>>

\* ------------------------------------------------------------------ claims

\* C1 (as stated): whenever the worker is between jobs or has returned, every
\* job it started has exactly one terminal message (Done, DoneWithVmaf, Error,
\* QualityWarning or the Cancelled that ended it) in what the worker sent.
\* Refuted: a job whose source removal fails has DoneWithVmaf and Error.
C1_ExactlyOneTerminal ==
    WorkerBetweenJobs => \A i \in Started(log) : Cardinality(TerminalsOf(log, i)) = 1

\* C2: at most one job is active.  In what the worker sent at most one started
\* job lacks its terminal message, and that job is the one the worker is
\* running; while the worker runs a job every other started job has its
\* terminal message; and the front end, before and after every tick, shows at
\* most one job as converting.
C2_AtMostOneActive ==
    LET active == {i \in Started(log) : TerminalsOf(log, i) = {}}
    IN  /\ Cardinality(active) <= 1
        /\ \A i \in active : ~WorkerBetweenJobs /\ job.index = i
        /\ ~WorkerBetweenJobs =>
              /\ job.index \in Started(log)
              /\ \A i \in Started(log) \ {job.index} : TerminalsOf(log, i) # {}
        /\ Cardinality({i \in DOMAIN files : files[i].status.s = "Converting"}) <= 1

C2_Witness ==
    /\ wpc = "enc_poll"
    /\ job.index = 1
    /\ files[0].status.s \in TerminalStatuses
    /\ files[1].status.s = "Converting"

C4_PreJobCancel ==
    cancel_at.stage = "idle" =>
        /\ WorkerBetweenJobs
        /\ \A e \in Entries(log) : e.idx <= cancel_at.idx
        /\ wpc = "loop" => CancelledEntry \notin Entries(log)
        /\ (wpc = "returned" /\ job.index # cancel_at.idx) =>
              /\ job.index = cancel_at.idx + 1
              /\ log # <<>>
              /\ Last(log) = CancelledEntry
              /\ Cardinality({k \in DOMAIN log : log[k].type = "Cancelled"}) = 1

C4_Witness ==
    /\ cancel_at = [stage |-> "idle", idx |-> 0]
    /\ wpc = "returned"
    /\ job.index = 1
    /\ Last(log) = CancelledEntry
    /\ Started(log) = {0}

\* C5: when the encode stage's polling loop has seen the flag, ffmpeg is gone
\* and the job's output file is absent from the moment the encode returns
\* Cancelled; and every job the front end has marked as skipped on a Cancelled
\* message has no output file.
C5_CancelRemovesOutput ==
    /\ (result = ResCancelled /\ result_stage = "encode") =>
          /\ child = "none"
          /\ output_file[job.index] = "absent"
          /\ ~progress_file
    /\ \A i \in DOMAIN files :
          files[i].status.s = "Skipped" => output_file[i] = "absent"

C5_Witness ==
    /\ result = ResCancelled
    /\ result_stage = "encode"
    /\ files[job.index].status.s = "Skipped"
    /\ Last(recv) = CancelledEntry

\* The flag was set while job 1 was in its encode stage, job 0 is shown as
\* done, the worker has returned and the front end has processed everything.
C6_Scenario ==
    /\ Drained
    /\ cancel_at.idx = 1
    /\ cancel_at.stage \in {"start", "encode", "poll"}
    /\ files[0].status.s \in {"Done", "DoneWithVmaf"}

\* C6 (as stated): in that scenario the stream ends with job 1's Progress
\* followed by Cancelled, nothing is tagged with a later job, job 1 is shown
\* as skipped and every later job as pending.
\* Refuted: set after the polling loop's last check, the flag is not seen by
\* the encode stage and job 1 completes; set before a failed start, job 1 fails.
C6_Original ==
    C6_Scenario =>
        /\ \A e \in Entries(log) : e.idx <= 1
        /\ Len(log) >= 2
        /\ Last(log) = CancelledEntry
        /\ log[Len(log) - 1] = Entry("Progress", 1)
        /\ files[1].status = Skipped("Cancelled")
        /\ \A j \in DOMAIN files : j > 1 => files[j].status = Pending

\* C6 (amended): in that scenario job 0 has exactly its one completion in the
\* stream, nothing is tagged with a job after job 1 and every later job is
\* shown as pending.  If the flag was set before a cancellation check of the
\* polling loop, the encode stage returns Cancelled; whenever it does, the
\* stream ends with job 1's Progress followed by the only Cancelled and job 1
\* is shown as skipped.  Otherwise job 1 has its own terminal status, and
\* Cancelled was sent, last, exactly if the worker went on to take job 2.
C6_CancelDuringEncode ==
    C6_Scenario =>
        /\ \A e \in Entries(log) : e.idx <= 1
        /\ \A j \in DOMAIN files : j > 1 => files[j].status = Pending
        /\ Cardinality(TerminalsOf(log, 0)) = 1
        /\ cancel_at.stage = "encode" => result = ResCancelled
        /\ result = ResCancelled =>
              /\ result_stage = "encode"
              /\ Len(log) >= 2
              /\ Last(log) = CancelledEntry
              /\ log[Len(log) - 1] = Entry("Progress", 1)
              /\ Cardinality({k \in DOMAIN log : log[k].type = "Cancelled"}) = 1
              /\ files[1].status = Skipped("Cancelled")
        /\ result # ResCancelled =>
              /\ files[1].status.s \in TerminalStatuses \ {"Skipped"}
              /\ (CancelledEntry \in Entries(log)) <=> (job.index = 2)
              /\ CancelledEntry \in Entries(log) => Last(log) = CancelledEntry

C6_Witness ==
    /\ C6_Scenario
    /\ DOMAIN files = 0 .. 2
    /\ cancel_at.stage = "encode"
    /\ log = <<Entry("Progress", 0), Entry("Done", 0), Entry("Progress", 1), CancelledEntry>>
    /\ recv = log
    /\ files[0].status = StDone
    /\ files[1].status = Skipped("Cancelled")
    /\ files[2].status = Pending

\* The flag was set before the worker had returned.
CancelledWhileRunning == cancel_at.stage \notin {"never", "returned"}

\* C7 (as stated): once the worker has returned after the flag was set while
\* it was running, it has sent Cancelled, it has sent no Done or DoneWithVmaf
\* for the job that was in its search, encode or verify stage when the flag
\* was set, and it has started no further job.
\* Refuted: the verify stage, and the polling loop after its check, do not
\* look at the flag; the job completes, and after the last job nothing is sent.
C7_Original ==
    (wpc = "returned" /\ CancelledWhileRunning) =>
        /\ CancelledEntry \in Entries(log)
        /\ cancel_at.stage \in {"search", "start", "encode", "poll", "verify"} =>
              \A e \in Entries(log) :
                  e.idx = cancel_at.idx => e.type \notin {"Done", "DoneWithVmaf"}
        /\ \A e \in Entries(log) : e.idx <= cancel_at.idx

\* C7 (amended): once the flag is set the worker starts no further job.  If
\* it was set while the active job was in its quality search, or in its encode
\* stage no later than a cancellation check of the polling loop, that job gets
\* no Done, DoneWithVmaf or QualityWarning; if it was set at a check of the
\* polling loop Cancelled is sent.  When the worker returns without having
\* sent Cancelled, it has started every job of its list.
C7_CancellationHonoured ==
    /\ cancel_at.stage # "never" => \A e \in Entries(log) : e.idx <= cancel_at.idx
    /\ cancel_at.stage \in {"search", "start", "encode"} =>
          \A e \in Entries(log) : e.idx = cancel_at.idx => e.type \notin Completions
    /\ (wpc = "returned" /\ cancel_at.stage = "encode") => CancelledEntry \in Entries(log)
    /\ (wpc = "returned" /\ CancelledWhileRunning /\ CancelledEntry \notin Entries(log)) =>
          /\ jobs = <<>>
          /\ Started(log) = DOMAIN files
          /\ cancel_at.idx = job.index

C7_Witness ==
    /\ wpc = "returned"
    /\ cancel_at = [stage |-> "verify", idx |-> 0]
    /\ Entry("DoneWithVmaf", 0) \in Entries(log)
    /\ Last(log) = CancelledEntry
    /\ Started(log) = {0}

\* C8: an encode failure is the failed job's Error and nothing else, and the
\* run goes on.  When the encode stage has returned an error and the worker has
\* sent it, the worker is back at the head of its loop and the job's only
\* terminal message is that Error, the last message sent.  An Error that
\* follows a Progress carries that Progress's index; what follows an Error is
\* the next job's Progress, or Cancelled if the flag was set.  A worker that
\* returns with the flag unset has started every job.
C8_EncodeFailureIsolated ==
    /\ (result.kind = "Error" /\ wpc # "emit") =>
          /\ result_stage = "encode"
          /\ wpc = "loop"
          /\ Last(log) = Entry("Error", job.index)
          /\ Cardinality(TerminalsOf(log, job.index)) = 1
    /\ \A k \in DOMAIN log :
          log[k].type = "Error" =>
              /\ k > 1
              /\ log[k - 1].type = "Progress" => log[k - 1].idx = log[k].idx
              /\ k < Len(log) =>
                    /\ log[k + 1] \in {Entry("Progress", log[k].idx + 1), CancelledEntry}
                    /\ ~cancel_flag => log[k + 1] = Entry("Progress", log[k].idx + 1)
    /\ (wpc = "returned" /\ ~cancel_flag) => Started(log) = DOMAIN files

C8_Witness ==
    /\ DOMAIN files = 0 .. 2
    /\ ~cancel_flag
    /\ Drained
    /\ log = <<Entry("Progress", 0), Entry("Done", 0), Entry("Progress", 1),
               Entry("Error", 1), Entry("Progress", 2), Entry("Done", 2)>>
    /\ recv = log
    /\ files[0].status = StDone
    /\ files[1].status = StError("ffmpeg failed")
    /\ files[2].status = StDone

\* find_optimal_crf returned an error other than its own cancellation.
SearchFailed ==
    /\ ~search_result.ok
    /\ search_result.err \in {"Unavailable", "Spawn", "Exit", "Parse", "Wait"}

\* C9: a failed quality search is never the job's error.  When the pipeline
\* enters the encode stage after a failed search there is no CRF override and
\* no result yet; a failed search leads anywhere else only with the flag set,
\* and then to Cancelled; an Error result comes from the encode stage only;
\* and an encode without an override runs with the preset's CRF.
C9_SearchFailureFallsBack ==
    /\ (SearchFailed /\ wpc = "encode_start") =>
          /\ crf_override = None
          /\ result = NoResult
    /\ (SearchFailed /\ wpc \notin {"search_returned", "encode_start"}) =>
          /\ cancel_flag
          /\ result = ResCancelled
          /\ wpc \in {"emit", "returned"}
    /\ result.kind = "Error" => result_stage = "encode"
    /\ (wpc \in {"enc_loop", "enc_poll"} /\ ~crf_override.some) => enc_crf = Some(PresetCrf)

C9_Witness ==
    /\ SearchFailed
    /\ search_result.err = "Parse"
    /\ wpc = "encode_start"
    /\ ~cancel_flag
    /\ crf_override = None

\* find_optimal_crf returned because it saw the flag set.
SearchCancelled == search_result = Err("Cancelled")

\* C10 (as stated): after a quality search ended by cancellation the pipeline
\* is in its encode stage with no CRF override, and no result is ever produced
\* by the quality-search stage.
\* Refuted: run_encoding_pipeline returns Cancelled when the search failed and
\* the flag is set.
C10_Original ==
    /\ (SearchCancelled /\ wpc # "search_returned") =>
          /\ wpc = "encode_start"
          /\ crf_override = None
    /\ result_stage # "search"

\* C10 (amended): after a quality search ended by cancellation the pipeline
\* returns Cancelled from the quality-search stage: the encode stage is not
\* entered (no parameters built, no output file) and the worker reports
\* Cancelled and returns.  The quality-search stage yields no other result.
C10_SearchCancellationAborts ==
    /\ (SearchCancelled /\ wpc # "search_returned") =>
          /\ wpc \in {"emit", "returned"}
          /\ result = ResCancelled
          /\ result_stage = "search"
          /\ enc_crf = None
          /\ child = "none"
          /\ output_file[job.index] = "absent"
          /\ wpc = "returned" => Last(log) = CancelledEntry
    /\ result_stage = "search" => (result = ResCancelled /\ cancel_flag)

C10_Witness ==
    /\ SearchCancelled
    /\ wpc = "returned"
    /\ result_stage = "search"
    /\ Last(log) = CancelledEntry
    /\ log[Len(log) - 1] = Entry("Progress", job.index)

\* calculate_vmaf was called for the active job and returned an error.
VmafFailed == vmaf_result = Some([ok |-> FALSE])

\* C11: when verification is enabled and computing the score fails, the
\* pipeline's result is plain Success, produced by the verify stage; the
\* output file stays complete; and the worker's message for the job is
\* Done(idx), its only terminal message, which the front end shows as Done.
C11_VerificationFailureIsSuccess ==
    VmafFailed =>
        /\ config.vmaf_enabled
        /\ result = Success
        /\ result_stage = "verify"
        /\ output_file[job.index] = "complete"
        /\ wpc \in {"emit", "loop"}
        /\ wpc = "loop" =>
              /\ Last(log) = Entry("Done", job.index)
              /\ Cardinality(TerminalsOf(log, job.index)) = 1
              /\ chan = <<>> => files[job.index].status = StDone

C11_Witness ==
    /\ VmafFailed
    /\ wpc = "loop"
    /\ chan = <<>>
    /\ files[job.index].status = StDone
    /\ output_file[job.index] = "complete"

\* calculate_vmaf returned a score for the active job.
VmafScored == vmaf_result.some /\ vmaf_result.v.ok

\* C12: with verification score s and warning threshold t the pipeline's
\* result is QualityWarning{s, t} exactly if s < t and SuccessWithVmaf(s)
\* exactly if s >= t; and from the verify stage until the worker takes the
\* next job - through the terminal message and the source-deletion decision -
\* the output file stays complete, for a warning as for a success.
C12_WarningIffBelowThreshold ==
    VmafScored =>
        LET s == vmaf_result.v.score
            t == config.vmaf_threshold
        IN  /\ result.kind \in {"QualityWarning", "SuccessWithVmaf"}
            /\ (result.kind = "QualityWarning") <=> (s < t)
            /\ (result.kind = "SuccessWithVmaf") <=> (s >= t)
            /\ result.score = s
            /\ result.kind = "QualityWarning" => result.threshold = t
            /\ wpc \in {"emit", "delete", "loop"}
            /\ output_file[job.index] = "complete"

C12_Witness ==
    /\ VmafScored
    /\ result = ResQualityWarning(90, 95)
    /\ wpc = "loop"
    /\ ~source_file[job.index]
    /\ output_file[job.index] = "complete"

\* C13: a source file is gone only if the worker reported SourceDeleted for
\* the job after a DoneWithVmaf or QualityWarning of that job, and the job has
\* no Done and no Error; while that job is still the worker's current one,
\* delete_source was requested for it and its score is at least the deletion
\* threshold.  Conversely SourceDeleted is sent only for a removed file.
C13_DeletionOnlyWhenSafe ==
    \A i \in DOMAIN source_file :
        /\ ~source_file[i] =>
              /\ Entry("SourceDeleted", i) \in Entries(log)
              /\ \E e \in Entries(log) :
                    e.idx = i /\ e.type \in {"DoneWithVmaf", "QualityWarning"}
              /\ Entry("Done", i) \notin Entries(log)
              /\ Entry("Error", i) \notin Entries(log)
              /\ Cardinality(TerminalsOf(log, i)) = 1
              /\ (job.index = i /\ result # NoResult) =>
                    /\ job.delete_source
                    /\ result.kind \in {"SuccessWithVmaf", "QualityWarning"}
                    /\ result.score >= DELETE_VMAF_THRESHOLD
        /\ Entry("SourceDeleted", i) \in Entries(log) => ~source_file[i]

C13_Witness ==
    /\ job.delete_source
    /\ result = SuccessWithVmaf(96)
    /\ log = <<Entry("Progress", 0), Entry("DoneWithVmaf", 0), Entry("SourceDeleted", 0)>>
    /\ chan = <<>>
    /\ ~source_file[0]
    /\ files[0].status = StDoneWithVmaf(96)

\* C14: when the worker is back at the head of its loop after a job with
\* delete_source whose score is below the deletion threshold, the source is
\* in place, the output is complete and the last message sent is that job's
\* SourceKeptLowVmaf.  Every SourceKeptLowVmaf in the channel carries a score
\* below the threshold - the job's own score while it is the current job - and
\* the source of every job so reported exists.
C14_LowScoreKeepsSource ==
    /\ (wpc = "loop" /\ result.kind \in {"SuccessWithVmaf", "QualityWarning"}
           /\ job.delete_source /\ result.score < DELETE_VMAF_THRESHOLD) =>
          /\ source_file[job.index]
          /\ output_file[job.index] = "complete"
          /\ Last(log) = Entry("SourceKeptLowVmaf", job.index)
    /\ \A k \in DOMAIN chan :
          chan[k].type = "SourceKeptLowVmaf" =>
              /\ chan[k].score < DELETE_VMAF_THRESHOLD
              /\ source_file[chan[k].idx]
              /\ (job.index = chan[k].idx /\ result # NoResult) => chan[k].score = result.score
    /\ \A i \in DOMAIN source_file :
          Entry("SourceKeptLowVmaf", i) \in Entries(log) => source_file[i]

C14_Witness ==
    /\ job.delete_source
    /\ result = ResQualityWarning(72, 85)
    /\ wpc = "loop"
    /\ chan = <<SourceKeptLowVmaf(job.index, 72)>>
    /\ files[job.index].status = StQualityWarning(72, 85)
    /\ source_file[job.index]
    /\ output_file[job.index] = "complete"

Notifications == {"SourceDeleted", "SourceKeptLowVmaf"}

\* C15: in what the worker sent, each job has at most one notification
\* (SourceDeleted or SourceKeptLowVmaf, hence never both); a notification
\* directly follows the DoneWithVmaf or QualityWarning of its own job and is
\* followed by nothing but the next job's first Progress or Cancelled; and
\* while a job's pipeline or terminal message is still pending there is no
\* notification for it.
C15_OneNotificationAfterTerminal ==
    /\ \A i \in DOMAIN files :
          Cardinality({k \in DOMAIN log : log[k].type \in Notifications /\ log[k].idx = i}) <= 1
    /\ \A k \in DOMAIN log :
          log[k].type \in Notifications =>
              /\ k > 1
              /\ log[k - 1].idx = log[k].idx
              /\ log[k - 1].type \in {"DoneWithVmaf", "QualityWarning"}
              /\ k < Len(log) =>
                    log[k + 1] \in {Entry("Progress", log[k].idx + 1), CancelledEntry}
    /\ ~WorkerBetweenJobs =>
          \A e \in Entries(log) : e.type \in Notifications => e.idx # job.index

C15_Witness ==
    /\ wpc = "returned"
    /\ Entry("SourceDeleted", 0) \in Entries(log)
    /\ Entry("SourceKeptLowVmaf", 1) \in Entries(log)
    /\ recv = log

\* C16 (as stated): in every step of the front end, a job whose status is
\* terminal (Done, DoneWithVmaf, QualityWarning, Skipped or Error) keeps it.
\* Refuted: the Error the worker sends after a failed source removal (C1)
\* turns a job shown as DoneWithVmaf or QualityWarning into Error.
C16_TerminalStatusIsFinal ==
    [][\A i \in DOMAIN files :
          files[i].status.s \in TerminalStatuses => files'[i].status = files[i].status]_vars

\* C17 (as stated): in every reachable state of the front end
\* converted_count + skipped_count + error_count is at most the number of jobs.
\* Refuted: a job whose source removal fails (C1) is counted as converted on
\* its DoneWithVmaf or QualityWarning and as failed on the Error that follows.
C17_CountersBounded ==
    converted_count + skipped_count + error_count <= Cardinality(DOMAIN files)

\* C18 (as stated): overall_progress never decreases in a step of the run
\* (total_jobs_to_encode is fixed, so the numerators are compared).
\* Refuted: when the job that is converting ends in Error or is skipped, its
\* progress leaves the numerator and nothing replaces it.
C18_ProgressNeverDecreases ==
    [][OverallProgress(files', current_file_index', TotalToEncode').num
          >= OverallProgress(files, current_file_index, TotalToEncode).num]_vars

\* C19: overall_progress is 0 when total_jobs_to_encode is 0; otherwise it is
\* min(100, (completed * 100 + current) / total), where completed is the number
\* of jobs whose status is a done one (neither waiting, encoding, skipped nor
\* failed) and current is the progress of the job at current_job_index while
\* it is encoding, else 0; the value always lies within [0, 100].
C19_OverallProgressFormula ==
    LET p == OverallProgress(files, current_file_index, TotalToEncode)
        completed == Cardinality({i \in DOMAIN files :
                        files[i].status.s \notin {"Pending", "Converting", "Skipped", "Error"}})
        current == IF \E i \in DOMAIN files : i = current_file_index /\ files[i].status.s = "Converting"
                   THEN files[current_file_index].status.progress ELSE 0
        sum == completed * 100 + current
    IN  /\ TotalToEncode = 0 => p.num = 0
        /\ TotalToEncode > 0 =>
              /\ p.den = TotalToEncode
              /\ p.num = IF sum < 100 * TotalToEncode THEN sum ELSE 100 * TotalToEncode
        /\ p.den > 0 /\ 0 <= p.num /\ p.num <= 100 * p.den

\* Job 0 is done, job 1 has failed and nothing is encoding: progress is 100/2.
C19_Witness ==
    /\ TotalToEncode = 2
    /\ files[0].status.s \in {"Done", "DoneWithVmaf", "QualityWarning"}
    /\ files[1].status.s = "Error"
    /\ OverallProgress(files, current_file_index, TotalToEncode) = [num |-> 100, den |-> 2]

\* C20: estimated_time_remaining is absent when overall_progress <= 0 or
\* >= 100 or there is no start time; otherwise it is
\* elapsed / (progress / 100) - elapsed, present only when strictly positive,
\* so a present value is never negative.
C20_EstimateWellDefined ==
    \A elapsed \in ElapsedTimes :
        LET p == OverallProgress(files, current_file_index, TotalToEncode)
            eta == EstimatedTimeRemaining(p, elapsed)
        IN  /\ (p.num <= 0 \/ p.num >= 100 * p.den \/ ~elapsed.some) => eta = None
            /\ eta.some =>
                  /\ eta.v.den > 0 /\ eta.v.num > 0
                  \* (eta + elapsed) * (progress / 100) = elapsed
                  /\ (eta.v.num + elapsed.v * eta.v.den) * p.num
                        = elapsed.v * 100 * p.den * eta.v.den
            /\ (p.num > 0 /\ p.num < 100 * p.den /\ elapsed.some) =>
                  (eta.some <=> elapsed.v * 100 * p.den > elapsed.v * p.num)

\* Job 0 of two is done and job 1 is half way (progress 75 %): 45 s elapsed
\* give an estimate of 15 s.
C20_Witness ==
    /\ TotalToEncode = 2
    /\ OverallProgress(files, current_file_index, TotalToEncode) = [num |-> 150, den |-> 2]
    /\ EstimatedTimeRemaining(OverallProgress(files, current_file_index, TotalToEncode), Some(45))
          = Some([num |-> 45 * 50, den |-> 150])

\* ===================================================== read accessors alone
\* The program with no run started: no worker, an empty channel, the front
\* end's counters at zero.  The specifications below call one accessor on
\* every queue or job of a bounded family.
NoRun ==
    /\ jobs = <<>>
    /\ job = NoJob
    /\ wpc = "returned"
    /\ search_result = NotRun
    /\ vmaf_result = None
    /\ crf_override = None
    /\ enc_crf = None
    /\ child = "none"
    /\ result = NoResult
    /\ result_stage = "none"
    /\ progress_file = FALSE
    /\ output_file = <<>>
    /\ source_file = <<>>
    /\ cancel_flag = FALSE
    /\ chan = <<>>
    /\ config = PlainConfig
    /\ env = BaseEnv
    /\ current_file_index = 0
    /\ converted_count = 0
    /\ skipped_count = 0
    /\ error_count = 0
    /\ encoding_active = FALSE
    /\ current_screen = "Home"
    /\ log = <<>>
    /\ recv = <<>>
    /\ cancel_at = [stage |-> "never", idx |-> Untagged]
    /\ NoSession

runVars == <<workerVars, fsVars, cancel_flag, chan, config, env, current_file_index,
             converted_count, skipped_count, error_count, encoding_active, current_screen,
             sessionVars, log, recv, cancel_at>>

\* ---------------------------------------------------------- all_completed
\* JobStatus (queue/job.rs), and the file statuses app.rs assigns and matches,
\* by variant name; the accessors match on the variant only.
JobStatusKinds == {"Pending", "Analyzing", "AwaitingConfig", "Ready", "Encoding",
                   "Done", "DoneWithVmaf", "Skipped", "Error", "QualityWarning"}
FileStatusKinds == {"Pending", "Analyzing", "AwaitingConfig", "ReadyToConvert", "Converting",
                    "Done", "DoneWithVmaf", "Skipped", "Error", "QualityWarning"}
OfKind(k) == [status |-> [s |-> k], source_deleted |-> FALSE, source_kept_vmaf |-> None]

\* Faulty variant: `.any(..)` in place of `.all(..)`.
AllCompletedAny(js) ==
    \E i \in DOMAIN js :
        js[i].status.s \in {"Done", "DoneWithVmaf", "Skipped", "Error", "QualityWarning"}

\* `.iter().all(|j| matches!(j.status, ..))` from job i on: the first job that
\* does not match decides.
RECURSIVE AllMatchFrom(_, _)
AllMatchFrom(js, i) ==
    IF i \notin DOMAIN js THEN TRUE
    ELSE IF js[i].status.s \in {"Done", "DoneWithVmaf", "Skipped", "Error", "QualityWarning"}
         THEN AllMatchFrom(js, i + 1)
         ELSE FALSE

\* QueueState::all_completed
AllCompleted(js) == AllMatchFrom(js, 0)

\* Every queue of up to NumJobs jobs, each in any status.
CompletedInit ==
    /\ NoRun
    /\ \E n \in 0 .. NumJobs :
          files \in [0 .. (n - 1) -> {OfKind(k) : k \in JobStatusKinds \cup FileStatusKinds}]
    /\ ejob = NewJob(NoPath, None)
    /\ ret = NoReturn

CallAllCompleted ==
    /\ \A i \in DOMAIN files : files[i].status.s \in JobStatusKinds
    /\ ret' = [fn |-> "all_completed", v |-> AllCompleted(files)]
    /\ UNCHANGED <<runVars, files, ejob>>

CallAllFilesCompleted ==
    /\ \A i \in DOMAIN files : files[i].status.s \in FileStatusKinds
    /\ ret' = [fn |-> "all_files_completed", v |-> AllFilesCompleted(files)]
    /\ UNCHANGED <<runVars, files, ejob>>

CompletedNext == CallAllCompleted \/ CallAllFilesCompleted
CompletedSpec == CompletedInit /\ [][CompletedNext]_vars

\* C21: all_completed (and the front end's all_files_completed) returns true
\* exactly when no job of the queue is waiting, being analysed, awaiting
\* configuration, ready or encoding, that is, when every job is Done,
\* DoneWithVmaf, QualityWarning, Skipped or Error.
C21_AllCompletedIffAllTerminal ==
    ret.fn \in {"all_completed", "all_files_completed"} =>
        LET open == {i \in DOMAIN files :
                        files[i].status.s \in {"Pending", "Analyzing", "AwaitingConfig", "Ready",
                                               "ReadyToConvert", "Encoding", "Converting"}}
            closed == {i \in DOMAIN files :
                        files[i].status.s \in {"Done", "DoneWithVmaf", "QualityWarning",
                                               "Skipped", "Error"}}
        IN  /\ open \cup closed = DOMAIN files /\ open \cap closed = {}
            /\ ret.v <=> (closed = DOMAIN files)
            /\ open # {} => ~ret.v

\* A queue whose first job is done and whose second is encoding: false.
C21_Witness ==
    /\ ret = [fn |-> "all_completed", v |-> FALSE]
    /\ DOMAIN files = {0, 1}
    /\ files[0].status.s = "DoneWithVmaf"
    /\ files[1].status.s = "Encoding"

\* ============================================== runs that are never cancelled
\* The runs of Spec in which the user never confirms a cancellation.
UncancelledNext ==
    \/ WorkerLoop
    \/ SearchSpawn
    \/ SearchCancelCheck
    \/ SearchPoll
    \/ SearchReturned
    \/ EncodeStart
    \/ EncodeCancelCheck
    \/ EncodePoll
    \/ Verify
    \/ EmitTerminal
    \/ TryDeleteSource
    \/ ChildExits
    \/ ProcessProgressMessages

UncancelledSpec == Init /\ [][UncancelledNext]_vars

\* C22: without a cancellation, once run_worker has returned and the front
\* end has drained the channel, every submitted job is in exactly one of the
\* terminal statuses Done, DoneWithVmaf, QualityWarning, Skipped or Error, and
\* the front end has processed a terminal message for it.
C22_NoJobLeftBehind ==
    /\ ~cancel_flag
    /\ Drained =>
          \A i \in DOMAIN files :
              /\ Cardinality({k \in TerminalStatuses : files[i].status.s = k}) = 1
              /\ \E k \in DOMAIN recv : recv[k].type \in TaggedTerminals /\ recv[k].idx = i

\* Two jobs, the first failed and the second done, the worker returned and
\* the channel empty.
C22_Witness ==
    /\ Drained
    /\ DOMAIN files = {0, 1}
    /\ files[0].status.s = "Error"
    /\ files[1].status.s \in Completions

\* ================================================ the encode stage alone
\* Runs of NumJobs jobs that are encoded only (no CRF search, no verification,
\* no source deletion), with an encoder whose progress file may hold, at each
\* poll, any of several times, in any order, some beyond the duration.
EncodeEnv == [scores |-> {96}, out_time |-> {0, 30, 60, 90}, duration |-> 60, crfs |-> {18}]

EncodeInit ==
    /\ jobs = JobList(0, NumJobs, FALSE)
    /\ config = PlainConfig
    /\ env = EncodeEnv
    /\ RunStart
    /\ NoSession
    /\ ejob = NewJob(NoPath, None)
    /\ ret = NoReturn

EncodeNext ==
    \/ WorkerLoop
    \/ EncodeStart
    \/ EncodeCancelCheck
    \/ EncodePoll
    \/ Verify
    \/ EmitTerminal
    \/ ChildExits
    \/ ProcessProgressMessages
    \/ CancelEncoding

EncodeSpec == EncodeInit /\ [][EncodeNext]_vars

\* The progress last sent for job i and not yet followed by anything else of
\* that job: the last Progress of the job still in the channel, else the
\* progress the front end shows for it; -1 when there is none.
LastProgressSent(i) ==
    LET inChan == {k \in DOMAIN chan : chan[k].type = "Progress" /\ chan[k].idx = i}
    IN  IF inChan # {}
        THEN chan[CHOOSE k \in inChan : \A l \in inChan : l <= k].progress
        ELSE IF i \in DOMAIN files /\ files[i].status.s = "Converting"
             THEN files[i].status.progress
             ELSE -1

\* C23 (as stated): each Progress(idx, p) the worker sends has p within
\* [0, 100]; the first of a job has p = 0 and every later one has p no
\* smaller than the one before.
\* Refuted: the worker forwards whatever the progress file yields; when the
\* encoder's reported time goes back, so does p.
C23_ProgressNonDecreasing ==
    [][(Len(chan') = Len(chan) + 1 /\ chan'[Len(chan')].type = "Progress") =>
          LET m == chan'[Len(chan')]
              before == LastProgressSent(m.idx)
          IN  /\ 0 <= m.progress /\ m.progress <= 100
              /\ before = -1 => m.progress = 0
              /\ before # -1 => m.progress >= before]_vars

\* C27: encode_video removes the progress file on every return path that
\* created it: the file exists only while run_encode_loop runs, and none
\* remains once the encode stage has returned (spawn failure, success, encoder
\* error, failed status check, cancellation) or between jobs.
C27_ProgressFileRemoved ==
    /\ progress_file => wpc \in {"enc_loop", "enc_poll"}
    /\ wpc \in {"verify", "emit", "loop", "returned"} => ~progress_file

\* The encode stage of a job has returned because the run was cancelled while
\* ffmpeg was running, and the progress file is gone.
C27_Witness ==
    /\ wpc = "emit"
    /\ result = ResCancelled
    /\ result_stage = "encode"
    /\ ~progress_file

\* C28: the worker never mutates front-end state.  A step that moves the
\* worker, touches a file or sends a message leaves every field of the front
\* end (job statuses, counters, current index, screen) as it was; and those
\* fields change only in a step in which the front end empties the channel,
\* a step that leaves the worker where it is.
C28_WorkerLeavesFrontEndAlone ==
    [][/\ (workerVars' # workerVars \/ fsVars' # fsVars \/ log' # log) => UNCHANGED appVars
       /\ appVars' # appVars =>
             /\ chan # <<>> /\ chan' = <<>>
             /\ UNCHANGED <<workerVars, fsVars, log>>]_vars

\* The worker has finished job 0 and sent Done(0); the front end, which has
\* not looked at the channel since, still shows the job as converting.
C28_Witness ==
    /\ chan = <<Done(0)>>
    /\ wpc = "loop"
    /\ files[0].status.s = "Converting"
    /\ converted_count = 0

\* ================================================ one job's accessors alone
Paths ==
    {[parent |-> Some("/videos"), name |-> Some(<<"movie", ".", "mkv">>)],
     [parent |-> Some(""), name |-> Some(<<"clip", ".", "sample", ".", "mp4">>)],
     [parent |-> Some("/videos"), name |-> Some(<<".", "hidden">>)],
     [parent |-> Some("/videos"), name |-> Some(<<"noext">>)],
     NoPath}
Suffixes == {"_av1", "_x", ""}       \* config validation accepts any string
Containers == {"mkv", "mp4"}
SourceSizes == {None, Some(0), Some(100)}
OutputSizes == {None, Some(0), Some(40), Some(100), Some(150)}

\* Path::file_stem: the name up to its last ".", the whole name when it has
\* none or only a leading one, nothing without a name.
FileStem(path) ==
    IF ~path.name.some THEN <<>>
    ELSE LET n == path.name.v
             dots == {k \in DOMAIN n : n[k] = "."}
         IN  IF dots = {} THEN n
             ELSE LET last == CHOOSE k \in dots : \A l \in dots : l <= k
                  IN  IF last = 1 THEN n ELSE SubSeq(n, 1, last - 1)

\* parent.join(format!("{}{}.{}", stem, suffix, container)); an empty
\* suffix adds nothing to the name.
OutputPathFor(path, suffix, container) ==
    [parent |-> Some(IF path.parent.some THEN path.parent.v ELSE "."),
     name |-> Some(FileStem(path) \o (IF suffix = "" THEN <<>> ELSE <<suffix>>)
                       \o <<".", container>>)]

\* Faulty variant: a path generated before is extended.
GenerateOutputPathFromOutput(j, suffix, container) ==
    [j EXCEPT !.output_path =
        Some(OutputPathFor(IF j.output_path.some THEN j.output_path.v ELSE j.path,
                           suffix, container))]

\* EncodingJob::generate_output_path
GenerateOutputPath(j, suffix, container) ==
    [j EXCEPT !.output_path = Some(OutputPathFor(j.path, suffix, container))]

\* Faulty variant: plain subtraction.
PlainSub(a, b) == a - b

\* u64::saturating_sub
SaturatingSub(a, b) == IF a >= b THEN a - b ELSE 0

\* EncodingJob::size_reduction; the percentage as the exact fraction num/den.
SizeReduction(j) ==
    IF j.source_size.some /\ j.output_size.some /\ j.source_size.v > 0
    THEN LET saved == SaturatingSub(j.source_size.v, j.output_size.v)
         IN  Some([saved |-> saved, percent |-> [num |-> saved * 100, den |-> j.source_size.v]])
    ELSE None

\* Every job of the family, new or after its encode (output size known).
JobInit ==
    /\ NoRun
    /\ files = <<>>
    /\ \E path \in Paths, source \in SourceSizes, output \in OutputSizes :
          ejob = [NewJob(path, source) EXCEPT !.output_size = output]
    /\ ret = NoReturn

CallGenerateOutputPath ==
    /\ \E suffix \in Suffixes, container \in Containers :
          ejob' = GenerateOutputPath(ejob, suffix, container)
    /\ UNCHANGED <<runVars, files, ret>>

CallSizeReduction ==
    /\ ret' = [fn |-> "size_reduction", v |-> SizeReduction(ejob)]
    /\ UNCHANGED <<runVars, files, ejob>>

JobNext == CallGenerateOutputPath \/ CallSizeReduction
JobSpec == JobInit /\ [][JobNext]_vars

C26_OutputPathIdempotent ==
    \A suffix \in Suffixes, container \in Containers :
        LET once == GenerateOutputPath(ejob, suffix, container)
            twice == GenerateOutputPath(once, suffix, container)
        IN  /\ once.output_path.some
            /\ twice = once
            /\ once.output_path =
                  GenerateOutputPath(NewJob(ejob.path, None), suffix, container).output_path
            /\ [once EXCEPT !.output_path = ejob.output_path] = ejob

\* /videos/movie.mkv with suffix "_av1" and container "mp4", its sizes known.
C26_Witness ==
    /\ ejob.path = [parent |-> Some("/videos"), name |-> Some(<<"movie", ".", "mkv">>)]
    /\ ejob.output_path =
          Some([parent |-> Some("/videos"), name |-> Some(<<"movie", "_av1", ".", "mp4">>)])
    /\ ejob.source_size = Some(100)
    /\ ejob.output_size = Some(40)

\* C30 (as stated): once the front end has processed the Cancelled message of
\* a run and the worker has returned, every submitted job is in a terminal
\* status, so all_files_completed holds.
\* Refuted: the Cancelled arm marks only the job that is converting; the jobs
\* the worker never reached stay Pending.
C30_CancelledRunAllTerminal ==
    (Drained /\ CancelledEntry \in Entries(recv)) => AllFilesCompleted(files)

\* ------------------------------------------------ a session of the front end
\* From the home screen the user selects files, the front end analyses them,
\* the user confirms each one's tracks, the last confirmation starts a run,
\* and the finish screen leads back home.  The runs are those of the
\* configuration with the VMAF check, the CRF search and source deletion off.
NewFile == [status |-> Pending, source_deleted |-> FALSE, source_kept_vmaf |-> None]

\* files.iter().skip(from).position(AwaitingConfig), as an index of `fs`.
FirstAwaiting(fs, from) ==
    LET waiting == {i \in DOMAIN fs : i >= from /\ fs[i].status.s = "AwaitingConfig"}
    IN  IF waiting = {} THEN None
        ELSE Some(CHOOSE i \in waiting : \A k \in waiting : i <= k)

\* files_to_encode: the files that are ReadyToConvert, in order.
RECURSIVE ReadyJobs(_, _)
ReadyJobs(fs, i) ==
    IF i \notin DOMAIN fs THEN <<>>
    ELSE (IF fs[i].status.s = "ReadyToConvert"
          THEN <<[index |-> i, delete_source |-> FALSE]>> ELSE <<>>)
         \o ReadyJobs(fs, i + 1)

\* Faulty variant: start_encoding goes on with the flag it has.
KeptCancelFlag(old) == old

\* self.cancel_flag = Arc::new(AtomicBool::new(false))
NewCancelFlag(old) == FALSE

\* select_explorer_entry up to the call of analyze_files: the old files are
\* dropped and `n` files pushed.
SelectFiles ==
    /\ current_screen = "Home"
    /\ analyze_index = None
    /\ \E n \in 1 .. NumJobs :
          /\ files' = [i \in 0 .. (n - 1) |-> NewFile]
          /\ output_file' = [i \in 0 .. (n - 1) |-> "absent"]
          /\ source_file' = [i \in 0 .. (n - 1) |-> TRUE]
    /\ analyze_index' = Some(0)
    /\ UNCHANGED <<workerVars, progress_file, cancel_flag, chan, config, env,
                   current_file_index, converted_count, skipped_count, error_count,
                   encoding_active, current_screen, config_file_index, prior_cancel,
                   accessVars, log, recv, cancel_at>>

\* analyze_files, the head of one iteration.
AnalyzeBegin ==
    /\ analyze_index.some
    /\ files[analyze_index.v].status.s = "Pending"
    /\ files' = [files EXCEPT ![analyze_index.v].status = [s |-> "Analyzing"]]
    /\ UNCHANGED <<workerVars, fsVars, cancel_flag, chan, config, env,
                   current_file_index, converted_count, skipped_count, error_count,
                   encoding_active, current_screen, sessionVars, accessVars,
                   log, recv, cancel_at>>

\* analyze_files, the rest of the iteration, and after the last one the
\* rest of the function.
AnalyzeEnd ==
    /\ analyze_index.some
    /\ files[analyze_index.v].status.s = "Analyzing"
    /\ \E ok \in BOOLEAN :
          /\ ok \/ error_count < MaxErrors
          /\ LET i == analyze_index.v
                 fs == [files EXCEPT ![i].status =
                            IF ok THEN [s |-> "AwaitingConfig"] ELSE StError("analysis")]
                 first == FirstAwaiting(fs, 0)
             IN  /\ files' = fs
                 /\ error_count' = IF ok THEN error_count ELSE error_count + 1
                 /\ IF i + 1 \in DOMAIN files
                    THEN /\ analyze_index' = Some(i + 1)
                         /\ UNCHANGED <<config_file_index, current_screen>>
                    ELSE /\ analyze_index' = None
                         /\ config_file_index' = IF first.some THEN first.v ELSE 0
                         /\ current_screen' = IF first.some THEN "TrackConfig" ELSE "Finish"
    /\ UNCHANGED <<workerVars, fsVars, cancel_flag, chan, config, env,
                   current_file_index, converted_count, skipped_count,
                   encoding_active, prior_cancel, accessVars, log, recv, cancel_at>>

\* confirm_track_config up to the call of start_encoding.
ConfirmTrackConfig ==
    /\ current_screen = "TrackConfig"
    /\ analyze_index = None
    /\ files[config_file_index].status.s = "AwaitingConfig"
    /\ LET fs == [files EXCEPT ![config_file_index].status = [s |-> "ReadyToConvert"]]
           next_index == FirstAwaiting(fs, config_file_index + 1)
       IN  /\ files' = fs
           /\ config_file_index' = IF next_index.some THEN next_index.v
                                   ELSE config_file_index
    /\ UNCHANGED <<workerVars, fsVars, cancel_flag, chan, config, env,
                   current_file_index, converted_count, skipped_count,
                   error_count, encoding_active, current_screen,
                   analyze_index, prior_cancel, accessVars, log, recv, cancel_at>>

\* start_encoding, which confirm_track_config calls after the last file: a
\* new flag, a new channel, a new thread for the files that are
\* ReadyToConvert, which become Pending.  A thread of an earlier run has at
\* most its return left.
StartEncoding ==
    /\ current_screen = "TrackConfig"
    /\ files[config_file_index].status.s = "ReadyToConvert"
    /\ current_screen' = "Queue"
    /\ encoding_active' = TRUE
    /\ current_file_index' = 0
    /\ cancel_flag' = NewCancelFlag(cancel_flag)
    /\ chan' = <<>>
    /\ jobs' = ReadyJobs(files, 0)
    /\ files' = [i \in DOMAIN files |->
                    IF files[i].status.s = "ReadyToConvert"
                    THEN [files[i] EXCEPT !.status = Pending] ELSE files[i]]
    /\ job' = NoJob
    /\ wpc' = "loop"
    /\ search_result' = NotRun
    /\ vmaf_result' = None
    /\ crf_override' = None
    /\ enc_crf' = None
    /\ child' = "none"
    /\ result' = NoResult
    /\ result_stage' = "none"
    /\ log' = <<>>
    /\ recv' = <<>>
    /\ cancel_at' = [stage |-> "never", idx |-> Untagged]
    /\ prior_cancel' = (prior_cancel \/ cancel_flag)
    /\ UNCHANGED <<fsVars, config, env, converted_count, skipped_count, error_count,
                   config_file_index, analyze_index, accessVars>>

\* Esc on the track configuration screen, between two handlers:
\* navigate_to_home, the files stay.
LeaveTrackConfig ==
    /\ current_screen = "TrackConfig"
    /\ files[config_file_index].status.s = "AwaitingConfig"
    /\ current_screen' = "Home"
    /\ UNCHANGED <<workerVars, fsVars, cancel_flag, chan, config, env, files,
                   current_file_index, converted_count, skipped_count, error_count,
                   encoding_active, sessionVars, accessVars, log, recv, cancel_at>>

\* Enter on the finish screen: reset.  The receiver is dropped.
Reset ==
    /\ current_screen = "Finish"
    /\ files' = <<>>
    /\ current_file_index' = 0
    /\ config_file_index' = 0
    /\ converted_count' = 0
    /\ skipped_count' = 0
    /\ error_count' = 0
    /\ encoding_active' = FALSE
    /\ chan' = <<>>
    /\ current_screen' = "Home"
    /\ UNCHANGED <<workerVars, fsVars, cancel_flag, config, env, analyze_index,
                   prior_cancel, accessVars, log, recv, cancel_at>>

\* Esc on the queue screen while encoding, confirmed in the dialog.
CancelFromQueue ==
    /\ current_screen = "Queue"
    /\ encoding_active
    /\ CancelEncoding

SessionInit ==
    /\ NoRun
    /\ files = <<>>
    /\ ejob = NewJob(NoPath, None)
    /\ ret = NoReturn

SessionNext ==
    \/ SelectFiles
    \/ AnalyzeBegin
    \/ AnalyzeEnd
    \/ ConfirmTrackConfig
    \/ StartEncoding
    \/ LeaveTrackConfig
    \/ Reset
    \/ CancelFromQueue
    \/ WorkerLoop
    \/ EncodeStart
    \/ EncodeCancelCheck
    \/ EncodePoll
    \/ Verify
    \/ EmitTerminal
    \/ ChildExits
    \/ ProcessProgressMessages

SessionSpec == SessionInit /\ [][SessionNext]_vars

\* C29: the flag is set exactly when the user cancelled the run that is on
\* (or was last on), and a run the user did not cancel never reports
\* Cancelled: the worker and the pipeline leave the flag alone, nothing
\* unsets it during a run, and a cancellation of an earlier run is gone when
\* the next run starts.
C29_FlagFreshPerRun ==
    /\ cancel_flag <=> (cancel_at.stage # "never")
    /\ CancelledEntry \in Entries(log) => cancel_at.stage # "never"

\* A run after a cancelled one went through with its flag unset.
C29_Witness ==
    /\ prior_cancel
    /\ ~cancel_flag
    /\ Drained
    /\ Entry("Done", 0) \in Entries(recv)
    /\ files[0].status = StDone

\* C24: while the queue holds the same files, a file's status keeps its kind
\* or moves along an edge of the graph Pending -> Analyzing ->
\* {AwaitingConfig, Error}, AwaitingConfig -> ReadyToConvert -> Pending ->
\* Converting -> {Done, DoneWithVmaf, QualityWarning, Error, Skipped}; it
\* becomes Analyzing only inside analyze_files and Converting only while a
\* run is on.
C24_StatusGraph ==
    [][LET edges ==
               {<<"Pending", "Analyzing">>, <<"Analyzing", "AwaitingConfig">>,
                <<"Analyzing", "Error">>, <<"AwaitingConfig", "ReadyToConvert">>,
                <<"ReadyToConvert", "Pending">>, <<"Pending", "Converting">>}
               \cup {<<"Converting", t>> : t \in TerminalStatuses}
       IN  \/ analyze_index = None /\ analyze_index' # None
           \/ \A i \in DOMAIN files \cap DOMAIN files' :
                 LET a == files[i].status.s
                     b == files'[i].status.s
                 IN  \/ a = b
                     \/ /\ <<a, b>> \in edges
                        /\ b = "Analyzing" => analyze_index.some
                        /\ b = "Converting" => encoding_active]_vars

\* ------------------------------------------- runs of a queue that has jobs
\* start_encoding is reached from confirm_track_config only, after a file
\* was marked ReadyToConvert, so a run of the program has at least one job:
\* NumJobs jobs here, under every configuration.
FullRunInit ==
    /\ \E del \in BOOLEAN : jobs = JobList(0, NumJobs, del)
    /\ config \in Configs
    /\ env = BaseEnv
    /\ RunStart
    /\ NoSession
    /\ ejob = NewJob(NoPath, None)
    /\ ret = NoReturn

FullRunSpec == FullRunInit /\ [][Next]_vars

\* The run is shown as finished: process_progress_messages cleared
\* encoding_active and entered the finish screen.
Finished == ~encoding_active /\ current_screen = "Finish"

\* C31: the run is shown as finished, or as running, never as something in
\* between; it is finished only if the front end has processed Cancelled, or
\* a terminal message after which every file is completed; and once the
\* worker has returned and the channel is drained, it is finished, cancelled
\* or not.
C31_FinishedWhenDrained ==
    /\ Finished \/ (encoding_active /\ current_screen = "Queue")
    /\ Finished =>
          \/ CancelledEntry \in Entries(recv)
          \/ /\ AllFilesCompleted(files)
             /\ \E e \in Entries(recv) : e.type \in TaggedTerminals
    /\ Drained => Finished

\* A run whose first job failed, drained and finished without Cancelled: the
\* flag was set after the worker's last look at it.
C31_Witness ==
    /\ Drained
    /\ Finished
    /\ CancelledEntry \notin Entries(recv)
    /\ Entry("Error", 0) \in Entries(recv)
    /\ cancel_flag

\* C32: a Cancelled the worker sent is the last thing it sent, so there is
\* one at most; the worker has returned with it, and the source of the job
\* it had in hand is still there.
C32_CancelledIsLast ==
    \A k \in DOMAIN log :
        log[k] = CancelledEntry =>
            /\ k = Len(log)
            /\ wpc = "returned"
            /\ job # NoJob => source_file[job.index]

\* The first job done and its source deleted, the second cancelled in its
\* pipeline.
C32_Witness ==
    /\ Len(log) >= 5
    /\ log[2] = Entry("DoneWithVmaf", 0)
    /\ log[3] = Entry("SourceDeleted", 0)
    /\ log[Len(log) - 1] = Entry("Progress", 1)
    /\ Last(log) = CancelledEntry
    /\ ~source_file[0]
    /\ chan = <<>>

\* C33: when the flag was set while job i was being verified and the worker
\* has returned, job i has its Done, DoneWithVmaf or QualityWarning; with
\* delete_source a scored outcome is followed at once by the outcome of its
\* deletion decision, and the source is gone exactly if that is
\* SourceDeleted; if job i was the last one no Cancelled was sent, else
\* Cancelled is the last message and no later job was started.
C33_VerifyIgnoresCancel ==
    (cancel_at.stage = "verify" /\ wpc = "returned") =>
        LET i == cancel_at.idx
        IN  /\ \E k \in DOMAIN log :
                  /\ log[k].idx = i
                  /\ log[k].type \in Completions
                  /\ (job.delete_source /\ log[k].type \in {"DoneWithVmaf", "QualityWarning"}) =>
                        /\ k < Len(log)
                        /\ log[k + 1] \in {Entry("SourceDeleted", i),
                                           Entry("SourceKeptLowVmaf", i), Entry("Error", i)}
                        /\ source_file[i] <=> log[k + 1] # Entry("SourceDeleted", i)
            /\ IF \A n \in DOMAIN files : n <= i
               THEN CancelledEntry \notin Entries(log)
               ELSE /\ Last(log) = CancelledEntry
                    /\ \A e \in Entries(log) : e.idx <= i

\* The flag was set while the first job was verified: the job got its
\* warning and kept its source, and the second job was not started.
C33_Witness ==
    /\ wpc = "returned"
    /\ cancel_at = [stage |-> "verify", idx |-> 0]
    /\ log = <<Entry("Progress", 0), Entry("QualityWarning", 0),
               Entry("SourceKeptLowVmaf", 0), CancelledEntry>>
    /\ source_file[0]

\* C34: an iteration of run_encode_loop that begins with the flag set ends
\* the encode as Cancelled, with the output removed and the process gone,
\* whatever the process has done, and sends nothing; the pipeline's result is
\* then Cancelled until the worker has reported it.
C34_CancelBeforeExitCheck ==
    [][/\ (wpc = "enc_loop" /\ cancel_flag /\ wpc' # wpc) =>
             /\ wpc' = "emit"
             /\ result' = ResCancelled
             /\ output_file'[job.index] = "absent"
             /\ child' = "none"
             /\ ~progress_file'
             /\ UNCHANGED <<chan, log>>
       /\ (wpc = "emit" /\ result = ResCancelled /\ wpc' # wpc) =>
             /\ wpc' = "returned"
             /\ Last(log') = CancelledEntry]_vars

\* The iteration begins with the flag set; ffmpeg has exited successfully
\* and its output is complete.
C34_Witness ==
    /\ wpc = "enc_loop"
    /\ cancel_flag
    /\ child = "exited_ok"
    /\ output_file[job.index] = "complete"

\* C35 (as stated): when the encode stage has returned Error after ffmpeg was
\* started, the job's output file is absent and no encoder process is left.
\* Refuted: when child.try_wait() fails, run_encode_loop returns the error
\* and leaves the output as it is.
C35_FailedEncodeLeavesNothing ==
    (/\ result.kind = "Error"
     /\ result_stage = "encode"
     /\ result.text \notin {"Failed to create progress file", "Failed to start ffmpeg"}) =>
        /\ output_file[job.index] = "absent"
        /\ child = "none"

\* ------------------------------------------------ one verified job alone
\* A single job, verified against either warning threshold, with scores on
\* both sides of, and on, the warning and the deletion threshold.
VerifyInit ==
    /\ \E del \in BOOLEAN : jobs = JobList(0, 1, del)
    /\ config \in VerifyConfigs
    /\ env = VerifyEnv
    /\ RunStart
    /\ NoSession
    /\ ejob = NewJob(NoPath, None)
    /\ ret = NoReturn

VerifyNext ==
    \/ WorkerLoop
    \/ EncodeStart
    \/ EncodeCancelCheck
    \/ EncodePoll
    \/ Verify
    \/ EmitTerminal
    \/ TryDeleteSource
    \/ ChildExits
    \/ ProcessProgressMessages
    \/ CancelEncoding

VerifySpec == VerifyInit /\ [][VerifyNext]_vars

\* The deletion decision of the job in hand has been carried out.
Decided ==
    /\ wpc = "loop"
    /\ job.delete_source
    /\ result.kind \in {"SuccessWithVmaf", "QualityWarning"}

\* C36 (as stated): after the decision the source is gone exactly if the
\* score is at least 90, whichever scored outcome the job had.
\* Refuted: the removal can fail, and the source of a job that scored 90 or
\* more is still there.
C36_Original ==
    Decided => (~source_file[job.index] <=> result.score >= DELETE_VMAF_THRESHOLD)

\* C36 (amended): after the decision the last message sent is
\* SourceKeptLowVmaf exactly if the score is below 90, and else the outcome of
\* the removal, SourceDeleted or Error, whichever scored outcome the job had
\* and whatever the warning threshold is; the source is gone exactly after
\* SourceDeleted.
C36_DeletionByScoreOnly ==
    Decided =>
        /\ (result.score >= DELETE_VMAF_THRESHOLD) <=>
               Last(log) \in {Entry("SourceDeleted", job.index), Entry("Error", job.index)}
        /\ (result.score < DELETE_VMAF_THRESHOLD) <=>
               Last(log) = Entry("SourceKeptLowVmaf", job.index)
        /\ ~source_file[job.index] <=> Last(log) = Entry("SourceDeleted", job.index)

\* A warning with a score of 90 under the warning threshold 95: the source
\* is deleted.
C36_Witness ==
    /\ Decided
    /\ config.vmaf_threshold = 95
    /\ result = ResQualityWarning(90, 95)
    /\ Last(log) = Entry("SourceDeleted", 0)
    /\ ~source_file[0]

\* C37: once the run is finished, overall_progress is 100 exactly if every
\* job is Done, DoneWithVmaf or QualityWarning; when all jobs are completed
\* and one of them is Error or Skipped it is below 100, and if it is also
\* above 0, estimated_time_remaining is present for every positive elapsed
\* time.
C37_ProgressAtEnd ==
    LET p == OverallProgress(files, current_file_index, TotalToEncode)
        done == {i \in DOMAIN files : files[i].status.s \in Completions}
        lost == {i \in DOMAIN files : files[i].status.s \in {"Error", "Skipped"}}
    IN  /\ Finished => (p.num = 100 * p.den <=> done = DOMAIN files)
        /\ (AllFilesCompleted(files) /\ lost # {}) =>
              /\ p.num < 100 * p.den
              /\ p.num > 0 =>
                    \A elapsed \in ElapsedTimes :
                        (elapsed.some /\ elapsed.v > 0) =>
                            EstimatedTimeRemaining(p, elapsed).some

\* The run is over, the first job done and the second failed: progress is
\* 100/2 and 45 s elapsed give an estimate of 45 s.
C37_Witness ==
    /\ Finished
    /\ Drained
    /\ files[0].status.s \in Completions
    /\ files[1].status.s = "Error"
    /\ OverallProgress(files, current_file_index, TotalToEncode) = [num |-> 100, den |-> 2]
    /\ EstimatedTimeRemaining(OverallProgress(files, current_file_index, TotalToEncode), Some(45))
          = Some([num |-> 4500, den |-> 100])

\* C39 (as stated): a generated output path differs from the job's input
\* path, for every input path, suffix and container.
\* Refuted: with an empty suffix and the container of the input's extension
\* the two are the same path.
C39_OutputNeverInput ==
    ejob.output_path.some => ejob.output_path.v # ejob.path

\* ------------------------------------------------- the worker under fairness
\* Job lists of every length up to NumJobs, with the search, the VMAF check
\* and source deletion on.
FullConfig == [vmaf_enabled |-> TRUE, vmaf_threshold |-> 85, ab_av1_available |-> TRUE]

TerminationEnv == [scores |-> {96}, out_time |-> {30}, duration |-> 60, crfs |-> {18}]

TerminationInit ==
    /\ \E n \in 0 .. NumJobs : jobs = JobList(0, n, TRUE)
    /\ config = FullConfig
    /\ env = TerminationEnv
    /\ RunStart
    /\ NoSession
    /\ ejob = NewJob(NoPath, None)
    /\ ret = NoReturn

\* One step of the worker thread, wherever it is.
WorkerStep ==
    \/ WorkerLoop
    \/ SearchSpawn
    \/ SearchCancelCheck
    \/ SearchPoll
    \/ SearchReturned
    \/ EncodeStart
    \/ EncodeCancelCheck
    \/ EncodePoll
    \/ Verify
    \/ EmitTerminal
    \/ TryDeleteSource

\* The worker thread keeps running; every external process exits at some
\* time unless it is killed first; the front end keeps polling, which is
\* what makes room in the channel here (a send on the mpsc channel itself
\* never waits).  The user may set the flag at any time, or never.
WorkerFairness ==
    /\ WF_vars(WorkerStep)
    /\ WF_vars(ChildExits)
    /\ WF_vars(ProcessProgressMessages)

TerminationSpec == TerminationInit /\ [][Next]_vars /\ WorkerFairness

\* What precedes the start of a job are messages of earlier jobs only: no
\* job is started a second time.
StartedOnce(h) ==
    \A k, l \in DOMAIN h : (k < l /\ h[l].type = "Progress") => h[k].idx < h[l].idx

\* C38: the worker returns, and when it has returned it has started each
\* job once at most.
C38_WorkerTerminates == <>[](wpc = "returned" /\ StartedOnce(log))

\* A worker that was cancelled during the search of its second job has
\* returned.
C38_Witness ==
    /\ wpc = "returned"
    /\ cancel_at = [stage |-> "search", idx |-> 1]
    /\ Last(log) = CancelledEntry
    /\ Entry("Progress", 1) \in Entries(log)
    /\ StartedOnce(log)

====
